---- MODULE Spec2Model ----
(***************************************************************************)
(* A model of src/main.py (Nomaji): scan of the Input folder, grouping of  *)
(* the audio files into album/disc buckets, catalog matching with operator *)
(* prompts, structural validation of the fetched release, and application  *)
(* of the release's metadata (tag writes and renames).                     *)
(*                                                                         *)
(* Strings are sequences of one-character strings, so that the regular     *)
(* expressions, str.split, str.strip and the filename arithmetic of the    *)
(* program are computed character by character.  The Python value None is  *)
(* the one-element sequence None, which no string equals.                  *)
(*                                                                         *)
(* Spec is the program.  SpecGrouper, SpecClean and SpecRename run the     *)
(* Grouper, clean_file_name and one pass of update_metadata on their own,  *)
(* on inputs the folders of Spec do not hold.                              *)
(***************************************************************************)
EXTENDS Integers, Sequences, FiniteSets, TLC

\* ------------------------------------------------------------------ bounds

\* Longest directory listing (number of files found in the Input folder).
MaxFiles == 2
\* Most non-empty answers the operator gives at Manual Resolution prompts
\* for one album (the operator does not re-resolve forever).
MaxRounds == 2
\* The longest string a function that is run on its own is given.
MaxNameLen == 3

\* ----------------------------------------------------------------- strings

None == <<"None">>

Upper == <<"A","B","C","D","E","F","G","H","I","J","K","L","M",
           "N","O","P","Q","R","S","T","U","V","W","X","Y","Z">>
LowerOf == <<"a","b","c","d","e","f","g","h","i","j","k","l","m",
             "n","o","p","q","r","s","t","u","v","w","x","y","z">>

\* str.lower() on one character.
LowerChar(c) ==
    IF \E i \in 1..Len(Upper) : Upper[i] = c
    THEN LowerOf[CHOOSE i \in 1..Len(Upper) : Upper[i] = c]
    ELSE c

\* str.lower()
ToLower(s) == [i \in 1..Len(s) |-> LowerChar(s[i])]

\* The characters \s and \d of the regular expressions match.
IsSpace(c) == c \in {" ", "\t", "\n"}
IsDigit(c) == c \in {"0","1","2","3","4","5","6","7","8","9"}
IsHex(c) == IsDigit(c) \/ c \in {"a","b","c","d","e","f"}

\* s[i..j], empty when j < i.
Slice(s, i, j) == IF j < i THEN <<>> ELSE SubSeq(s, i, j)

\* str.endswith
EndsWith(s, suf) ==
    /\ Len(suf) <= Len(s)
    /\ Slice(s, Len(s) - Len(suf) + 1, Len(s)) = suf

\* The literal lit occurs in s at index i; ic: re.IGNORECASE.
LitAt(s, i, lit, ic) ==
    /\ i + Len(lit) - 1 <= Len(s)
    /\ \A k \in 1..Len(lit) :
          IF ic THEN LowerChar(s[i + k - 1]) = LowerChar(lit[k])
                ELSE s[i + k - 1] = lit[k]

\* First index >= i of s whose character is not white space (Len(s)+1 if none).
RECURSIVE SkipSpaces(_, _)
SkipSpaces(s, i) ==
    IF i <= Len(s) /\ IsSpace(s[i]) THEN SkipSpaces(s, i + 1) ELSE i

\* First index >= i of s whose character is not a digit.
RECURSIVE SkipDigits(_, _)
SkipDigits(s, i) ==
    IF i <= Len(s) /\ IsDigit(s[i]) THEN SkipDigits(s, i + 1) ELSE i

\* str.strip()
RECURSIVE RStripEnd(_, _)
RStripEnd(s, j) ==
    IF j >= 1 /\ IsSpace(s[j]) THEN RStripEnd(s, j - 1) ELSE j
Strip(s) == Slice(s, SkipSpaces(s, 1), RStripEnd(s, Len(s)))

\* s.split(sep)[0] and s.split(sep)[-1] for a one-character separator.
SplitFirst(s, sep) ==
    IF \E i \in 1..Len(s) : s[i] = sep
    THEN Slice(s, 1, (CHOOSE i \in 1..Len(s) :
                        s[i] = sep /\ \A k \in 1..(i-1) : s[k] # sep) - 1)
    ELSE s
SplitLast(s, sep) ==
    IF \E i \in 1..Len(s) : s[i] = sep
    THEN Slice(s, (CHOOSE i \in 1..Len(s) :
                     s[i] = sep /\ \A k \in (i+1)..Len(s) : s[k] # sep) + 1, Len(s))
    ELSE s

\* os.path.dirname: the path up to its last "/", without it.
Dirname(p) ==
    IF \E i \in 1..Len(p) : p[i] = "/"
    THEN Slice(p, 1, (CHOOSE i \in 1..Len(p) :
                        p[i] = "/" /\ \A k \in (i+1)..Len(p) : p[k] # "/") - 1)
    ELSE <<>>

\* os.path.join(dir, name)
PathJoin(dir, name) ==
    IF dir = <<>> THEN name
    ELSE IF dir[Len(dir)] = "/" THEN dir \o name
    ELSE dir \o <<"/">> \o name

\* str.isdigit()
IsDigitStr(s) == Len(s) > 0 /\ \A i \in 1..Len(s) : IsDigit(s[i])

\* str.zfill(2)
Zfill2(s) ==
    IF Len(s) >= 2 THEN s
    ELSE IF Len(s) = 1 THEN <<"0">> \o s
    ELSE <<"0","0">>

\* int(s) succeeds: optional white space, optional sign, digits (single
\* underscores between digits allowed).
IntParses(s) ==
    LET t == Strip(s)
        u == IF Len(t) > 0 /\ t[1] \in {"+", "-"} THEN Tail(t) ELSE t
    IN  /\ Len(u) > 0
        /\ IsDigit(u[1]) /\ IsDigit(u[Len(u)])
        /\ \A i \in 1..Len(u) :
              \/ IsDigit(u[i])
              \/ u[i] = "_" /\ i > 1 /\ i < Len(u) /\ IsDigit(u[i-1]) /\ IsDigit(u[i+1])

DigitVal(c) ==
    CASE c = "0" -> 0 [] c = "1" -> 1 [] c = "2" -> 2 [] c = "3" -> 3
      [] c = "4" -> 4 [] c = "5" -> 5 [] c = "6" -> 6 [] c = "7" -> 7
      [] c = "8" -> 8 [] c = "9" -> 9 [] OTHER -> 0

RECURSIVE DigitsValue(_, _)
DigitsValue(u, acc) ==
    IF u = <<>> THEN acc
    ELSE IF u[1] = "_" THEN DigitsValue(Tail(u), acc)
    ELSE DigitsValue(Tail(u), 10 * acc + DigitVal(u[1]))

\* int(s), for a string IntParses accepts.
IntValue(s) ==
    LET t == Strip(s)
        neg == Len(t) > 0 /\ t[1] = "-"
        u == IF Len(t) > 0 /\ t[1] \in {"+", "-"} THEN Tail(t) ELSE t
    IN  IF neg THEN 0 - DigitsValue(u, 0) ELSE DigitsValue(u, 0)

\* ------------------------------------------------- pure functions of main.py

\* Mutant: every matched character gets the default of replacements.get, "_".
Replacement_Default(c) ==
    IF c \in {"<", ">", ":", "\"", "/", "\\", "|", "?", "*"} THEN <<"_">> ELSE <<c>>

\* clean_file_name: the replacement of one character matched by [<>:"/\\|?*].
Replacement(c) ==
    CASE c = "<"  -> <<"(">>
      [] c = ">"  -> <<")">>
      [] c = ":"  -> <<"-">>
      [] c = "\"" -> <<"'">>
      [] c = "/"  -> <<"-">>
      [] c = "\\" -> <<"-">>
      [] c = "|"  -> <<"-">>
      [] c = "?"  -> <<>>
      [] c = "*"  -> <<>>
      [] OTHER    -> <<c>>

RECURSIVE ReplaceUnsafe(_)
ReplaceUnsafe(s) ==
    IF s = <<>> THEN <<>> ELSE Replacement(s[1]) \o ReplaceUnsafe(Tail(s))

\* clean_file_name(file_name): re.sub over the unsafe characters, then strip().
clean_file_name(file_name) == Strip(ReplaceUnsafe(file_name))

\* is_valid_release_id: ^[a-f0-9]{8}-[a-f0-9]{4}-[a-f0-9]{4}-[a-f0-9]{4}-[a-f0-9]{12}$
\* matched against input_str.strip().
is_valid_release_id(input_str) ==
    LET t == Strip(input_str)
        dashes == {9, 14, 19, 24}
    IN  /\ Len(t) = 36
        /\ \A i \in 1..36 : IF i \in dashes THEN t[i] = "-" ELSE IsHex(t[i])

\* disc_regex = (Disc|CD)\s*(\d+), re.IGNORECASE: the index after the digits
\* of a match starting at i, or 0 when there is none.
DiscWordLen(s, i) ==
    IF LitAt(s, i, <<"D","i","s","c">>, TRUE) THEN 4
    ELSE IF LitAt(s, i, <<"C","D">>, TRUE) THEN 2
    ELSE 0
DiscRegexDigitsFrom(s, i) == SkipSpaces(s, i + DiscWordLen(s, i))
DiscRegexMatchesAt(s, i) ==
    /\ DiscWordLen(s, i) > 0
    /\ SkipDigits(s, DiscRegexDigitsFrom(s, i)) > DiscRegexDigitsFrom(s, i)

\* disc_regex.search(file_path): group(2) of the leftmost match, or None.
DiscRegexSearch(file_path) ==
    IF \E i \in 1..Len(file_path) : DiscRegexMatchesAt(file_path, i)
    THEN LET i == CHOOSE i \in 1..Len(file_path) :
                    /\ DiscRegexMatchesAt(file_path, i)
                    /\ \A k \in 1..(i-1) : ~DiscRegexMatchesAt(file_path, k)
             d == DiscRegexDigitsFrom(file_path, i)
         IN  Slice(file_path, d, SkipDigits(file_path, d) - 1)
    ELSE None

\* pattern = (\s*(\(|\[)?Disc (\d+)(\)|\])?) at index i of the album tag;
\* ic: matched with re.IGNORECASE.
SuffixWordAt(s, i) ==
    LET j == SkipSpaces(s, i)
    IN  IF j <= Len(s) /\ s[j] \in {"(", "["} THEN j + 1 ELSE j
SuffixMatchesAt(s, i, ic) ==
    LET w == SuffixWordAt(s, i)
    IN  /\ LitAt(s, w, <<"D","i","s","c"," ">>, ic)
        /\ SkipDigits(s, w + 5) > w + 5
\* group(3), the digits of the match at i.
SuffixDigits(s, i) ==
    LET d == SuffixWordAt(s, i) + 5 IN Slice(s, d, SkipDigits(s, d) - 1)
\* The index after the match at i.
SuffixEnd(s, i) ==
    LET e == SkipDigits(s, SuffixWordAt(s, i) + 5)
    IN  IF e <= Len(s) /\ s[e] \in {")", "]"} THEN e + 1 ELSE e

\* re.search(pattern, album, re.IGNORECASE): the start of the leftmost match, 0 if none.
SuffixSearch(album) ==
    IF \E i \in 1..Len(album) : SuffixMatchesAt(album, i, TRUE)
    THEN CHOOSE i \in 1..Len(album) :
            /\ SuffixMatchesAt(album, i, TRUE)
            /\ \A k \in 1..(i-1) : ~SuffixMatchesAt(album, k, TRUE)
    ELSE 0

\* re.sub(pattern, "", album): every match removed; no flags, so case-sensitive.
RECURSIVE SuffixSub(_, _)
SuffixSub(s, i) ==
    IF i > Len(s) THEN <<>>
    ELSE IF SuffixMatchesAt(s, i, FALSE) THEN SuffixSub(s, SuffixEnd(s, i))
    ELSE <<s[i]>> \o SuffixSub(s, i + 1)

\* Mutant: the marker picks the disc number but is left in the album name.
StripDiscSuffix_Kept(album) == album

\* Lines 75-80: the album name used as the grouping key.
StripDiscSuffix(album) ==
    IF SuffixSearch(album) # 0 THEN Strip(SuffixSub(album, 1)) ELSE album

\* Lines 70-79: the disc number of a file.
DiscNumberOf(file_path, album) ==
    IF SuffixSearch(album) # 0 THEN SuffixDigits(album, SuffixSearch(album))
    ELSE IF DiscRegexSearch(file_path) # None THEN DiscRegexSearch(file_path)
    ELSE <<"1">>

\* difflib.SequenceMatcher (no junk: autojunk needs 200 elements): length of the
\* common run of a from i and b from j inside a[..ahi], b[..bhi].
RECURSIVE RunLen(_, _, _, _, _, _)
RunLen(a, b, i, j, ahi, bhi) ==
    IF i <= ahi /\ j <= bhi /\ a[i] = b[j]
    THEN 1 + RunLen(a, b, i + 1, j + 1, ahi, bhi)
    ELSE 0

\* find_longest_match: <<i, j, k>>, k maximal, then i minimal, then j minimal.
LongestMatch(a, b, alo, ahi, blo, bhi) ==
    LET cand == {<<i, j>> : i \in alo..ahi, j \in blo..bhi}
        len(c) == RunLen(a, b, c[1], c[2], ahi, bhi)
        best == CHOOSE c \in cand :
                  \A o \in cand :
                     \/ len(c) > len(o)
                     \/ len(c) = len(o) /\ (c[1] < o[1] \/ (c[1] = o[1] /\ c[2] <= o[2]))
    IN  <<best[1], best[2], len(best)>>

\* get_matching_blocks: the total size of the matching blocks.
RECURSIVE MatchedChars(_, _, _, _, _, _)
MatchedChars(a, b, alo, ahi, blo, bhi) ==
    IF alo > ahi \/ blo > bhi THEN 0
    ELSE LET m == LongestMatch(a, b, alo, ahi, blo, bhi)
         IN  IF m[3] = 0 THEN 0
             ELSE m[3]
                  + MatchedChars(a, b, alo, m[1] - 1, blo, m[2] - 1)
                  + MatchedChars(a, b, m[1] + m[3], ahi, m[2] + m[3], bhi)

\* threshold=0.8, in tenths.
ThresholdTenths == 8

\* is_close_match: SequenceMatcher(None, name1.lower(), name2.lower()).ratio() >= 0.8,
\* ratio = 2*M/T, and 1.0 when both strings are empty.
is_close_match(name1, name2) ==
    LET a == ToLower(name1)
        b == ToLower(name2)
        T == Len(a) + Len(b)
    IN  IF T = 0 THEN TRUE
        ELSE 10 * 2 * MatchedChars(a, b, 1, Len(a), 1, Len(b)) >= ThresholdTenths * T

\* ------------------------------------------------------------ input data

S_UnknownAlbum == <<"U","n","k","n","o","w","n"," ","A","l","b","u","m">>
S_Unknown == <<"U","n","k","n","o","w","n">>
S_mp3 == <<".","m","p","3">>
S_flac == <<".","f","l","a","c">>
S_wav == <<".","w","a","v">>
S_Ab == <<"A","b">>
S_AbDisc2 == <<"A","b"," ","(","D","i","s","c"," ","2",")">>

\* A file on disk: its identity, whether mutagen can open it (ok), whether
\* saving its tags fails (locked), and its tags.
NewFile(id, ok, locked, album, artist) ==
    [id |-> id, ok |-> ok, locked |-> locked, album |-> album, artist |-> artist,
     title |-> None, tracknumber |-> None, date |-> None]

\* The files the Input folder is drawn from: <<path, file>>.
FileUniverse ==
    { <<<<"I","/","a",".","m","p","3">>,  NewFile(1, TRUE, FALSE, S_Ab, <<"A">>)>>,
      <<<<"I","/","0","1"," ","-"," ","T",".","m","p","3">>,
                                            NewFile(2, TRUE, FALSE, S_Ab, None)>>,
      <<<<"I","/","C","D","2","/","c",".","f","l","a","c">>,
                                            NewFile(3, TRUE, FALSE, S_Ab, <<"A">>)>>,
      <<<<"I","/","d",".","m","p","3">>,  NewFile(4, TRUE, FALSE, S_AbDisc2, <<"A">>)>>,
      <<<<"I","/","e",".","w","a","v">>,  NewFile(5, TRUE, FALSE, S_Ab, <<"A">>)>>,
      <<<<"I","/","f",".","m","p","3">>,  NewFile(6, FALSE, FALSE, None, None)>>,
      <<<<"I","/","g",".","m","p","3">>,  NewFile(7, TRUE, TRUE, None, <<"A">>)>>,
      <<<<"I","/","h",".","m","p","3">>,  NewFile(8, TRUE, TRUE, S_Ab, <<"A">>)>> }

\* The directory listings os.walk can produce: the files of a folder, in
\* some order, no file twice.
RECURSIVE Listings(_)
Listings(n) ==
    IF n = 0 THEN {<<>>}
    ELSE LET shorter == Listings(n - 1)
         IN  shorter \cup
             { Append(l, f) : l \in {x \in shorter : Len(x) = n - 1},
                              f \in FileUniverse }
NoRepeat(l) == \A i, j \in 1..Len(l) : i # j => l[i] # l[j]
Folders == {l \in Listings(MaxFiles) : Len(l) > 0 /\ NoRepeat(l)}

\* A search result entry of the lookup service (a release summary).
Candidate(id, title, artist) == [id |-> id, title |-> title, artist |-> artist]

\* What musicbrainzngs.search_releases can return as its release-list.
\* artist None: the entry carries no artist-credit name.
SearchLists ==
    { <<>>,
      <<Candidate(1, S_Ab, <<"A">>)>>,
      <<Candidate(2, S_Ab, None), Candidate(1, S_Ab, <<"A">>)>>,
      <<Candidate(3, <<"a","b">>, <<"B">>), Candidate(1, S_Ab, <<"A">>)>>,
      <<Candidate(4, <<"Z">>, <<"A">>)>> }
\* The outcomes of a search call: a release-list, or a WebServiceError.
SearchOutcomes ==
    { [error |-> FALSE, list |-> l] : l \in SearchLists }
    \cup { [error |-> TRUE, list |-> <<>>] }

Track(title, position) == [title |-> title, artist |-> <<"A">>, position |-> position]
Medium(position, tracks) == [position |-> position, tracks |-> tracks]
Release(title, date, media) == [title |-> title, date |-> date, media |-> media]

tT1 == Track(<<"T">>, <<"1">>)
tU2 == Track(<<"U">>, <<"2">>)
tBad == Track(<<"V">>, <<"A">>)
tNeg == Track(<<"W","?">>, <<"-","1">>)
S_Date == <<"2","0","0","1">>

\* What musicbrainzngs.get_release_by_id can return.
Releases ==
    { Release(S_Ab, S_Date, <<Medium(<<"1">>, <<tT1>>)>>),
      Release(S_Ab, S_Date, <<Medium(<<"1">>, <<tT1, tU2>>)>>),
      Release(S_Ab, S_Date, <<Medium(<<"1">>, <<tU2, tT1>>)>>),
      Release(S_Ab, S_Date, <<Medium(<<"1">>, <<tT1>>), Medium(<<"2">>, <<tT1>>)>>),
      Release(S_Ab, S_Date, <<Medium(<<"2">>, <<tT1>>), Medium(<<"1">>, <<tT1>>)>>),
      Release(S_Ab, S_Date, <<Medium(None, <<tT1>>), Medium(<<"1">>, <<>>)>>),
      Release(S_Ab, S_Date, <<Medium(<<"1">>, <<tBad>>)>>),
      Release(None, <<>>, <<Medium(<<"1">>, <<tNeg>>)>>),
      Release(S_Ab, S_Date, <<>>) }

\* The outcomes of musicbrainzngs.get_release_by_id: a release (release is
\* the one-element sequence holding it), a ResponseError (an HTTP error) or a
\* NetworkError; both errors are WebServiceErrors.
FetchOutcomes ==
    { [kind |-> "ok", release |-> <<r>>] : r \in Releases }
    \cup { [kind |-> k, release |-> <<>>] : k \in {"ResponseError", "NetworkError"} }

S_Uuid == <<"0","a","1","b","2","c","3","d","-","0","0","0","0","-","0","0","0","0",
            "-","0","0","0","0","-","0","0","0","0","0","0","0","0","0","0","0","f">>

\* What the operator types at the Manual Resolution prompt.
ManualInputs == { <<>>, <<" ">>, S_Uuid, <<" ">> \o S_Ab }
\* What the operator types at a yes/no prompt.
Answers == { <<"y">>, <<"Y"," ">>, <<"n">>, <<>> }

\* ------------------------------------------------ lookup service wrappers

\* find_album_on_musicbrainz: the release-list, [] on a WebServiceError.
find_album_on_musicbrainz(outcome) ==
    IF outcome.error THEN <<>> ELSE outcome.list

\* fetch_full_release_details: the release, None (the empty sequence) on a
\* WebServiceError.
fetch_full_release_details(outcome) ==
    IF outcome.kind = "ok" THEN outcome.release ELSE <<>>

\* match.get("artist-credit", [{}])[0].get("artist", {}).get("name", "Unknown")
ReleaseArtist(match) == IF match.artist = None THEN S_Unknown ELSE match.artist

\* ------------------------------------------------------------- the Grouper

\* gather_all_files: the listed paths with a supported extension, in walk order.
HasAudioExtension(file) ==
    EndsWith(file, S_mp3) \/ EndsWith(file, S_flac) \/ EndsWith(file, S_wav)
gather_all_files(listing) == SelectSeq(listing, HasAudioExtension)

\* Index of the entry of seq whose field key equals k, 0 if none.
IndexOfName(seq, k) ==
    IF \E i \in 1..Len(seq) : seq[i].name = k
    THEN CHOOSE i \in 1..Len(seq) : seq[i].name = k
    ELSE 0

\* Mutant: the disc's list is replaced by the new file instead of extended
\* (albums[album][disc_number] = [file_path]); the disc key is still created.
AddToDisc_Overwrite(discs, disc_number, file_path) ==
    IF \E i \in 1..Len(discs) : discs[i].name = disc_number
    THEN [i \in 1..Len(discs) |->
            IF discs[i].name = disc_number
            THEN [name |-> disc_number, files |-> <<file_path>>]
            ELSE discs[i]]
    ELSE Append(discs, [name |-> disc_number, files |-> <<file_path>>])

\* albums[album][disc_number].append(file_path), creating the album and the
\* disc on first use (lines 82-88).  A dict is the sequence of its entries in
\* insertion order.
AddToDisc(discs, disc_number, file_path) ==
    LET withDisc == IF IndexOfName(discs, disc_number) = 0
                    THEN Append(discs, [name |-> disc_number, files |-> <<>>])
                    ELSE discs
        d == IndexOfName(withDisc, disc_number)
    IN  [withDisc EXCEPT ![d].files = Append(@, file_path)]
AddToAlbum(albums, album, disc_number, file_path) ==
    LET withAlbum == IF IndexOfName(albums, album) = 0
                     THEN Append(albums, [name |-> album, discs |-> <<>>])
                     ELSE albums
        a == IndexOfName(withAlbum, album)
    IN  [withAlbum EXCEPT ![a].discs = AddToDisc(@, disc_number, file_path)]

\* One iteration of the loop of group_tracks_by_album (lines 58-91) on disk
\* contents files.
GroupOne(albums, file_path, files) ==
    IF ~(EndsWith(file_path, S_mp3) \/ EndsWith(file_path, S_flac))
    THEN albums                                  \* unsupported type: continue
    ELSE IF ~files[file_path].ok
    THEN albums                                  \* mutagen raises: logged, skipped
    ELSE LET album == IF files[file_path].album = None
                      THEN S_UnknownAlbum ELSE files[file_path].album
         IN  AddToAlbum(albums, StripDiscSuffix(album),
                        DiscNumberOf(file_path, album), file_path)

RECURSIVE GroupFrom(_, _, _, _)
GroupFrom(albums, file_paths, i, files) ==
    IF i > Len(file_paths) THEN albums
    ELSE GroupFrom(GroupOne(albums, file_paths[i], files), file_paths, i + 1, files)

\* group_tracks_by_album(file_paths)
group_tracks_by_album(file_paths, files) == GroupFrom(<<>>, file_paths, 1, files)

\* discs[disc_number]: the files of a disc; discs has the key.
HasDisc(discs, disc_number) == IndexOfName(discs, disc_number) # 0
FilesOfDisc(discs, disc_number) == discs[IndexOfName(discs, disc_number)].files

\* ----------------------------------------------------------- the Validator

\* The metadata dict main builds for one track (lines 312-318).
TrackMetadata(track, album_name, date) ==
    [title |-> IF track.title = None THEN S_Unknown ELSE track.title,
     artist |-> IF track.artist = None THEN S_Unknown ELSE track.artist,
     album |-> album_name,
     date |-> date,
     tracknumber |-> IF track.position = None THEN <<"0">> ELSE track.position]

\* release.get("release-group", {}).get("title", "Unknown Album")
ReleaseGroupTitle(release) ==
    IF release.title = None THEN S_UnknownAlbum ELSE release.title

\* medium.get("position", "1")
MediumNumber(medium) == IF medium.position = None THEN <<"1">> ELSE medium.position

\* Lines 308-318: media[medium_number] created on first use, then extended
\* with the medium's tracks.
AddMedium(media, medium, album_name, date) ==
    LET n == MediumNumber(medium)
        withKey == IF IndexOfName(media, n) = 0
                   THEN Append(media, [name |-> n, tracks |-> <<>>])
                   ELSE media
        k == IndexOfName(withKey, n)
        metas == [t \in 1..Len(medium.tracks) |->
                     TrackMetadata(medium.tracks[t], album_name, date)]
    IN  [withKey EXCEPT ![k].tracks = @ \o metas]

\* The disc-count test of line 320.
DiscCountMismatch(media, discs) == Len(media) > Len(discs)

\* Mutant: the track-count test is left out.
TrackCountMismatch_Never(media, discs, medium_number) == FALSE

\* Mutant: the track-count test rejects a medium only when it has fewer tracks
\* than the disc has files.
TrackCountMismatch_OnlyFewer(media, discs, medium_number) ==
    Len(media[IndexOfName(media, medium_number)].tracks)
        < Len(FilesOfDisc(discs, medium_number))

\* The track-count test of line 326, for a disc the local grouping has.
TrackCountMismatch(media, discs, medium_number) ==
    Len(media[IndexOfName(media, medium_number)].tracks)
        # Len(FilesOfDisc(discs, medium_number))

\* The loop over release["medium-list"] (lines 306-330) from medium i on.
\* outcome: "ok" (loop ran to its end), "disc_count" or "track_count" (a
\* mismatch: manual_input is called), "KeyError" (discs[medium_number] of line
\* 326 raised).
RECURSIVE ValidateFrom(_, _, _, _)
ValidateFrom(release, discs, media, i) ==
    IF i > Len(release.media) THEN [outcome |-> "ok", media |-> media]
    ELSE LET medium == release.media[i]
             n == MediumNumber(medium)
             grown == AddMedium(media, medium, ReleaseGroupTitle(release), release.date)
         IN  IF DiscCountMismatch(grown, discs)
             THEN [outcome |-> "disc_count", media |-> grown]
             ELSE IF ~HasDisc(discs, n)
             THEN [outcome |-> "KeyError", media |-> grown]
             ELSE IF TrackCountMismatch(grown, discs, n)
             THEN [outcome |-> "track_count", media |-> grown]
             ELSE ValidateFrom(release, discs, grown, i + 1)

\* One pass of the body of `while full_details` (lines 301-330).
ValidateRelease(release, discs) == ValidateFrom(release, discs, <<>>, 1)

\* ------------------------------------------------------------- the Applier

\* zip(file_paths, track_metadata)
Zip(file_paths, track_metadata) ==
    LET n == IF Len(file_paths) < Len(track_metadata)
             THEN Len(file_paths) ELSE Len(track_metadata)
    IN  [i \in 1..n |-> [file |-> file_paths[i], meta |-> track_metadata[i]]]

\* The sort key of line 121 exists: int(tracknumber.split("/")[0]) does not raise.
SortKeyParses(pair) == IntParses(SplitFirst(pair.meta.tracknumber, "/"))
SortKey(pair) == IntValue(SplitFirst(pair.meta.tracknumber, "/"))

\* sorted(): stable, ascending by key.
RECURSIVE InsertByKey(_, _)
InsertByKey(sorted, x) ==
    IF sorted = <<>> THEN <<x>>
    ELSE IF SortKey(sorted[Len(sorted)]) <= SortKey(x) THEN Append(sorted, x)
    ELSE Append(InsertByKey(SubSeq(sorted, 1, Len(sorted) - 1), x), sorted[Len(sorted)])
RECURSIVE SortFrom(_, _, _)
SortFrom(sorted, pairs, i) ==
    IF i > Len(pairs) THEN sorted
    ELSE SortFrom(InsertByKey(sorted, pairs[i]), pairs, i + 1)
SortedTracks(pairs) == SortFrom(<<>>, pairs, 1)

\* Lines 167-179: the file name computed for a file and its metadata.
TrackNum(tracknumber) ==
    LET track_num == SplitFirst(tracknumber, "/")
    IN  IF IsDigitStr(track_num) THEN Zfill2(track_num) ELSE <<"0","0">>
\* Mutant: the file name is built from the title as it is, without
\* clean_file_name.
NewFilePath_Raw(file_path, metadata) ==
    LET base_name == TrackNum(metadata.tracknumber) \o <<" ","-"," ">> \o metadata.title
        ext == SplitLast(file_path, ".")
    IN  PathJoin(Dirname(file_path), base_name \o <<".">> \o ext)
NewFilePath(file_path, metadata) ==
    LET base_name == clean_file_name(
                        TrackNum(metadata.tracknumber) \o <<" ","-"," ">> \o metadata.title)
        ext == SplitLast(file_path, ".")
    IN  PathJoin(Dirname(file_path), base_name \o <<".">> \o ext)

\* Lines 153-164: the tags of a file after audio.save().
WriteTags(file, metadata) ==
    [file EXCEPT !.title = metadata.title,
                 !.artist = metadata.artist,
                 !.album = IF metadata.album # S_UnknownAlbum THEN metadata.album ELSE @,
                 !.tracknumber = metadata.tracknumber,
                 !.date = IF metadata.date # <<>> THEN metadata.date ELSE @]

\* The file at file_path is opened and its tags saved (lines 127-164 raise nothing).
TagsSaved(files, file_path) ==
    /\ EndsWith(file_path, S_mp3) \/ EndsWith(file_path, S_flac)
    /\ file_path \in DOMAIN files
    /\ files[file_path].ok
    /\ ~files[file_path].locked

\* os.rename(src, dst) succeeding: dst now names the file src named.
Rename(files, src, dst) ==
    [p \in (DOMAIN files \ {src}) \cup {dst} |-> IF p = dst THEN files[src] ELSE files[p]]

\* Line 183: os.rename onto an existing path replaces it on POSIX and raises
\* FileExistsError on Windows (caught at line 189).
RenameRaises(files, dst, posix) == dst \in DOMAIN files /\ ~posix

\* One iteration of the loop of update_metadata (lines 124-190): the disk after it.
ApplyToFile(files, file_path, metadata, posix) ==
    IF ~TagsSaved(files, file_path) THEN files
    ELSE LET saved == [files EXCEPT ![file_path] = WriteTags(@, metadata)]
             new_file_path == NewFilePath(file_path, metadata)
         IN  IF file_path = new_file_path THEN saved
             ELSE IF RenameRaises(saved, new_file_path, posix) THEN saved
             ELSE Rename(saved, file_path, new_file_path)

\* ------------------------------------------------------------------- state

VARIABLES
    posix,          \* the platform's os.rename replaces an existing target
    walk,           \* the paths os.walk lists, in its order
    fs,             \* the disk: path -> file
    all_files,      \* main: all_files
    albums,         \* main: albums (insertion-ordered dicts as sequences)
    idx,            \* position of the loop of line 246 in albums
    pc,             \* where main is
    exc,            \* the uncaught exception that ended the run, "" if none
    album_name,     \* main: album_name (reassigned at line 304)
    artist_name,    \* main: artist_name
    matches,        \* main: matches
    full_details,   \* main: full_details; <<>> is None, <<r>> a release
    media,          \* main: media
    mIdx,           \* position of the loop of line 338 in media
    sorted_tracks,  \* update_metadata: sorted_tracks
    fIdx,           \* position of the loop of line 124 in sorted_tracks
    rounds,         \* non-empty operator answers at manual prompts, this album
    asked,          \* the operator answered 'y' to a close match or gave a
                    \* manual input, this album
    prompts,        \* Manual Resolution prompts shown, this album
    touched,        \* ids of the files whose tags were saved or that were
                    \* renamed, this album
    fs0,            \* the disk when the processing of this album began
    result,         \* how the processing of the last album ended
    last_manual,    \* the manual_input call that is at its retry prompt or
                    \* has just returned: the error of its fetch, "" if none,
                    \* and whether the operator answered 'y' to the retry prompt
    log,            \* one entry per pass of the loop of line 124, this album
    arg,            \* the argument of a function that is run on its own
    ret             \* what that function has returned so far

vars == <<posix, walk, fs, all_files, albums, idx, pc, exc, album_name, artist_name,
          matches, full_details, media, mIdx, sorted_tracks, fIdx, rounds, asked,
          prompts, touched, fs0, result, last_manual, log, arg, ret>>

\* main: discs, the value of the album the loop of line 246 is at.
discs == albums[idx].discs
\* The key of that album in albums.
album_key == albums[idx].name

\* No manual_input call has returned since the last check of line 300.
NoManual == [fetch_error |-> "", retried |-> FALSE]

\* Lines 196-201 and 104-110: a fetch made within manual_input, and the error
\* the catalog answered with.
FetchAttempt(outcome) ==
    [fetch_error |-> IF outcome.kind = "ok" THEN "" ELSE outcome.kind,
     retried |-> FALSE]

\* Lines 124-190, one pass: the path the pass was given, the file that was at
\* that path (0 when there was none), the track whose metadata the pass held,
\* whether the tags were saved and whether the pass ended in the except clause
\* of line 189.
LogEntry(files, file_path, metadata, posix_rename) ==
    LET saved == TagsSaved(files, file_path)
    IN  [path   |-> file_path,
         id     |-> IF file_path \in DOMAIN files THEN files[file_path].id ELSE 0,
         track  |-> metadata,
         saved  |-> saved,
         raised |-> \/ ~saved
                    \/ /\ NewFilePath(file_path, metadata) # file_path
                       /\ RenameRaises(files, NewFilePath(file_path, metadata),
                                       posix_rename)]

DiskOf(folder) ==
    [p \in {folder[i][1] : i \in 1..Len(folder)} |->
        (CHOOSE e \in {folder[i] : i \in 1..Len(folder)} : e[1] = p)[2]]

Init ==
    /\ posix \in BOOLEAN
    /\ \E folder \in Folders :
          /\ walk = [i \in 1..Len(folder) |-> folder[i][1]]
          /\ fs = DiskOf(folder)
          /\ fs0 = DiskOf(folder)
    /\ all_files = <<>>
    /\ albums = <<>>
    /\ idx = 0
    /\ pc = "start"
    /\ exc = ""
    /\ album_name = <<>>
    /\ artist_name = None
    /\ matches = <<>>
    /\ full_details = <<>>
    /\ media = <<>>
    /\ mIdx = 0
    /\ sorted_tracks = <<>>
    /\ fIdx = 0
    /\ rounds = 0
    /\ asked = FALSE
    /\ prompts = 0
    /\ touched = {}
    /\ result = ""
    /\ last_manual = NoManual
    /\ log = <<>>
    /\ arg = <<>>
    /\ ret = <<>>

\* Line 243.
GatherAllFiles ==
    /\ pc = "start"
    /\ all_files' = gather_all_files(walk)
    /\ pc' = "gathered"
    /\ UNCHANGED <<posix, arg, ret, last_manual, log, walk, fs, albums, idx, exc, album_name, artist_name, matches,
                   full_details, media, mIdx, sorted_tracks, fIdx, rounds, asked,
                   prompts, touched, fs0, result>>

\* Line 244.
GroupTracks ==
    /\ pc = "gathered"
    /\ albums' = group_tracks_by_album(all_files, fs)
    /\ pc' = "next"
    /\ UNCHANGED <<posix, arg, ret, last_manual, log, walk, fs, all_files, idx, exc, album_name, artist_name, matches,
                   full_details, media, mIdx, sorted_tracks, fIdx, rounds, asked,
                   prompts, touched, fs0, result>>

\* Lines 258-275: the artist tag of the first file of the first disc; None when
\* the tag is absent or the file cannot be read.
FirstArtist(files, first_file) ==
    IF first_file \in DOMAIN files /\ files[first_file].ok
    THEN files[first_file].artist
    ELSE None

\* Lines 246-277: the next album; its artist; the catalog search.
BeginAlbum ==
    /\ pc = "next"
    /\ idx < Len(albums)
    /\ idx' = idx + 1
    /\ album_name' = albums[idx + 1].name
    /\ artist_name' = FirstArtist(fs, albums[idx + 1].discs[1].files[1])
    /\ \E outcome \in SearchOutcomes : matches' = find_album_on_musicbrainz(outcome)
    /\ pc' = "for_match"
    /\ full_details' = <<>>
    /\ media' = <<>>
    /\ rounds' = 0
    /\ asked' = FALSE
    /\ prompts' = 0
    /\ touched' = {}
    /\ fs0' = fs
    /\ result' = ""
    /\ last_manual' = NoManual
    /\ log' = <<>>
    /\ UNCHANGED <<posix, arg, ret, walk, fs, all_files, albums, exc, mIdx, sorted_tracks, fIdx>>

\* Mutant: the Exact tier compares the titles only.
IsExactMatch_TitleOnly(album, artist, match) == album = match.title

\* Line 284: the Exact tier.
IsExactMatch(album, artist, match) ==
    album = match.title /\ artist = ReleaseArtist(match)

\* The processing of an album ends: control is back at line 246.
EndAlbum(how) ==
    /\ pc' = "next"
    /\ result' = how
    /\ matches' = <<>>
    /\ full_details' = <<>>
    /\ media' = <<>>

\* Lines 279-298, up to the first prompt: the loop over matches is entered with
\* the first candidate, which is classified; with no candidate its body never runs.
Classify ==
    /\ pc = "for_match"
    /\ \/ /\ matches = <<>>
          /\ EndAlbum("no_candidates")
          /\ UNCHANGED prompts
       \/ /\ matches # <<>>
          /\ IsExactMatch(album_name, artist_name, matches[1])
          /\ \E outcome \in FetchOutcomes :
                full_details' = fetch_full_release_details(outcome)
          /\ pc' = "while"
          /\ UNCHANGED <<matches, media, result, prompts>>
       \/ /\ matches # <<>>
          /\ ~IsExactMatch(album_name, artist_name, matches[1])
          /\ is_close_match(album_name, matches[1].title)
          /\ pc' = "close_prompt"
          /\ UNCHANGED <<matches, full_details, media, result, prompts>>
       \/ /\ matches # <<>>
          /\ ~IsExactMatch(album_name, artist_name, matches[1])
          /\ ~is_close_match(album_name, matches[1].title)
          /\ pc' = "manual"
          /\ prompts' = prompts + 1
          /\ UNCHANGED <<matches, full_details, media, result>>
    /\ UNCHANGED <<posix, arg, ret, last_manual, log, walk, fs, all_files, albums, idx, exc, album_name, artist_name,
                   mIdx, sorted_tracks, fIdx, rounds, asked, touched, fs0>>

\* input(...).strip().lower() == 'y'
SaysYes(answer) == ToLower(Strip(answer)) = <<"y">>

\* Mutant: when the operator declines the close match, the loop goes on to
\* the next candidate instead of calling manual_input.
ClosePrompt_NextCandidate ==
    /\ pc = "close_prompt"
    /\ \E answer \in Answers :
          \/ /\ SaysYes(answer)
             /\ \E outcome \in FetchOutcomes :
                   full_details' = fetch_full_release_details(outcome)
             /\ asked' = TRUE
             /\ pc' = "while"
             /\ UNCHANGED matches
          \/ /\ ~SaysYes(answer)
             /\ matches' = Tail(matches)
             /\ pc' = "for_match"
             /\ UNCHANGED <<full_details, asked>>
    /\ UNCHANGED <<posix, arg, ret, last_manual, log, walk, fs, all_files, albums, idx,
                   exc, album_name, artist_name, media, mIdx, sorted_tracks, fIdx, rounds,
                   prompts, touched, fs0, result>>

\* Lines 289-294: the operator's answer to "Found a close match ... Use this?".
ClosePrompt ==
    /\ pc = "close_prompt"
    /\ \E answer \in Answers :
          \/ /\ SaysYes(answer)
             /\ \E outcome \in FetchOutcomes :
                   full_details' = fetch_full_release_details(outcome)
             /\ asked' = TRUE
             /\ pc' = "while"
             /\ UNCHANGED prompts
          \/ /\ ~SaysYes(answer)
             /\ pc' = "manual"
             /\ prompts' = prompts + 1
             /\ UNCHANGED <<full_details, asked>>
    /\ UNCHANGED <<posix, arg, ret, last_manual, log, walk, fs, all_files, albums, idx, exc, album_name, artist_name,
                   matches, media, mIdx, sorted_tracks, fIdx, rounds, touched, fs0,
                   result>>

\* manual_input (lines 192-226), from its prompt to its return, to the retry
\* prompt, or to the exception it lets through.
ManualInput ==
    /\ pc = "manual"
    /\ \E user_input \in ManualInputs :
          \/ /\ Strip(user_input) = <<>>                       \* line 226: return
             /\ full_details' = <<>>
             /\ pc' = "while"
             /\ last_manual' = NoManual
             /\ UNCHANGED <<rounds, asked, exc>>
          \/ /\ Strip(user_input) # <<>>
             /\ rounds < MaxRounds
             /\ is_valid_release_id(Strip(user_input))
             /\ rounds' = rounds + 1
             /\ asked' = TRUE
             /\ \E outcome \in FetchOutcomes :
                /\ last_manual' = FetchAttempt(outcome)
                /\ \/ /\ outcome.kind = "ok"                   \* line 200
                         /\ full_details' = outcome.release
                         /\ pc' = "while"
                         /\ UNCHANGED exc
                      \/ /\ outcome.kind = "ResponseError"        \* lines 201-203
                         /\ pc' = "retry"
                         /\ UNCHANGED <<full_details, exc>>
                      \/ /\ outcome.kind = "NetworkError"         \* not caught
                         /\ pc' = "crashed"
                         /\ exc' = "NetworkError"
                         /\ UNCHANGED full_details
          \/ /\ Strip(user_input) # <<>>
             /\ rounds < MaxRounds
             /\ ~is_valid_release_id(Strip(user_input))
             /\ rounds' = rounds + 1
             /\ asked' = TRUE
             /\ \E found \in SearchOutcomes :
                   \/ /\ find_album_on_musicbrainz(found) # <<>>   \* lines 208-216
                      /\ \E outcome \in FetchOutcomes :
                            /\ full_details' = fetch_full_release_details(outcome)
                            /\ last_manual' = FetchAttempt(outcome)
                   \/ /\ find_album_on_musicbrainz(found) = <<>>   \* falls off the end
                      /\ full_details' = <<>>
                      /\ last_manual' = NoManual
             /\ pc' = "while"
             /\ UNCHANGED exc
    /\ UNCHANGED <<posix, arg, ret, log, walk, fs, all_files, albums, idx, album_name, artist_name,
                   matches, media, mIdx, sorted_tracks, fIdx, prompts, touched, fs0,
                   result>>

\* Lines 203-205: the value manual_input returns after the retry prompt: None
\* when the answer is not 'y', and None again when it is, as the function then
\* runs off its end.
RetryResult(answer) == IF ~SaysYes(answer) THEN <<>> ELSE <<>>

\* The operator's answer to "Would you like to retry? (y/n)".
Retry ==
    /\ pc = "retry"
    /\ \E answer \in Answers :
          /\ full_details' = RetryResult(answer)
          /\ last_manual' = [last_manual EXCEPT !.retried = SaysYes(answer)]
    /\ pc' = "while"
    /\ UNCHANGED <<posix, arg, ret, log, walk, fs, all_files, albums, idx, exc, album_name, artist_name,
                   matches, media, mIdx, sorted_tracks, fIdx, rounds, asked, prompts,
                   touched, fs0, result>>

\* Mutant: the tags of a medium's first track are written to the first file of
\* its disc while the media are still being checked, so that a release rejected
\* at a later check has already been written.
Validate_WritesDuringLoop ==
    /\ pc = "while"
    /\ last_manual' = NoManual
    /\ \/ /\ full_details = <<>>
          /\ EndAlbum("no_release")
          /\ UNCHANGED <<album_name, mIdx, exc, prompts, fs, touched>>
       \/ /\ full_details # <<>>
          /\ LET v == ValidateRelease(full_details[1], discs)
                 early == /\ v.media # <<>>
                          /\ v.media[1].tracks # <<>>
                          /\ HasDisc(discs, v.media[1].name)
                 file_path == FilesOfDisc(discs, v.media[1].name)[1]
             IN  /\ album_name' = ReleaseGroupTitle(full_details[1])
                 /\ fs' = IF early
                          THEN ApplyToFile(fs, file_path, v.media[1].tracks[1], posix)
                          ELSE fs
                 /\ touched' = IF early /\ TagsSaved(fs, file_path)
                               THEN touched \cup {fs[file_path].id} ELSE touched
                 /\ \/ /\ v.outcome = "ok"
                       /\ media' = v.media
                       /\ mIdx' = 1
                       /\ pc' = "apply"
                       /\ UNCHANGED <<exc, prompts>>
                    \/ /\ v.outcome \in {"disc_count", "track_count"}
                       /\ pc' = "manual"
                       /\ prompts' = prompts + 1
                       /\ UNCHANGED <<media, mIdx, exc>>
                    \/ /\ v.outcome = "KeyError"
                       /\ pc' = "crashed"
                       /\ exc' = "KeyError"
                       /\ UNCHANGED <<media, mIdx, prompts>>
          /\ UNCHANGED <<matches, full_details, result>>
    /\ UNCHANGED <<posix, arg, ret, log, walk, all_files, albums, idx, artist_name, sorted_tracks,
                   fIdx, rounds, asked, fs0>>

\* Lines 300-336: the test of `while full_details` and one pass of its body.
Validate ==
    /\ pc = "while"
    /\ last_manual' = NoManual
    /\ \/ /\ full_details = <<>>                               \* while-else: break
          /\ EndAlbum("no_release")
          /\ UNCHANGED <<album_name, mIdx, exc, prompts>>
       \/ /\ full_details # <<>>
          /\ LET v == ValidateRelease(full_details[1], discs)
             IN  /\ album_name' = ReleaseGroupTitle(full_details[1])
                 /\ \/ /\ v.outcome = "ok"
                       /\ media' = v.media
                       /\ mIdx' = 1
                       /\ pc' = "apply"
                       /\ UNCHANGED <<exc, prompts>>
                    \/ /\ v.outcome \in {"disc_count", "track_count"}
                       /\ pc' = "manual"
                       /\ prompts' = prompts + 1
                       /\ UNCHANGED <<media, mIdx, exc>>
                    \/ /\ v.outcome = "KeyError"
                       /\ pc' = "crashed"
                       /\ exc' = "KeyError"
                       /\ UNCHANGED <<media, mIdx, prompts>>
          /\ UNCHANGED <<matches, full_details, result>>
    /\ UNCHANGED <<posix, arg, ret, log, walk, fs, all_files, albums, idx, artist_name, sorted_tracks,
                   fIdx, rounds, asked, touched, fs0>>

\* Lines 338-339 and 119-122: the next disc of media goes to update_metadata,
\* which sorts its pairs; after the last disc the album is done (line 341).
ApplyDisc ==
    /\ pc = "apply"
    /\ \/ /\ mIdx > Len(media)
          /\ EndAlbum("applied")
          /\ UNCHANGED <<mIdx, sorted_tracks, fIdx, exc>>
       \/ /\ mIdx <= Len(media)
          /\ LET pairs == Zip(FilesOfDisc(discs, media[mIdx].name), media[mIdx].tracks)
             IN  \/ /\ \E i \in 1..Len(pairs) : ~SortKeyParses(pairs[i])
                    /\ pc' = "crashed"
                    /\ exc' = "ValueError"
                    /\ UNCHANGED <<mIdx, sorted_tracks, fIdx>>
                 \/ /\ \A i \in 1..Len(pairs) : SortKeyParses(pairs[i])
                    /\ IF pairs # <<>>
                       THEN /\ sorted_tracks' = SortedTracks(pairs)
                            /\ fIdx' = 1
                            /\ pc' = "files"
                            /\ UNCHANGED mIdx
                       ELSE /\ mIdx' = mIdx + 1         \* the loop of line 124 is empty
                            /\ UNCHANGED <<pc, sorted_tracks, fIdx>>
                    /\ UNCHANGED exc
          /\ UNCHANGED <<matches, full_details, media, result>>
    /\ UNCHANGED <<posix, arg, ret, last_manual, log, walk, fs, all_files, albums, idx, album_name, artist_name,
                   rounds, asked, prompts, touched, fs0>>

\* Mutant: the try statement encloses the loop instead of its body, so that the
\* first pass that raises ends the loop and the files after it are left as
\* they were.
ProcessFile_StopsAtFailure ==
    /\ pc = "files"
    /\ LET file_path == sorted_tracks[fIdx].file
           metadata == sorted_tracks[fIdx].meta
       IN  /\ fs' = ApplyToFile(fs, file_path, metadata, posix)
           /\ touched' = IF TagsSaved(fs, file_path)
                         THEN touched \cup {fs[file_path].id} ELSE touched
           /\ log' = Append(log, LogEntry(fs, file_path, metadata, posix))
           /\ IF fIdx < Len(sorted_tracks)
                 /\ ~LogEntry(fs, file_path, metadata, posix).raised
              THEN fIdx' = fIdx + 1 /\ UNCHANGED <<pc, mIdx, sorted_tracks>>
              ELSE pc' = "apply" /\ mIdx' = mIdx + 1 /\ sorted_tracks' = <<>> /\ fIdx' = 0
    /\ UNCHANGED <<posix, arg, ret, last_manual, walk, all_files, albums, idx, exc,
                   album_name, artist_name, matches, full_details, media, rounds, asked,
                   prompts, fs0, result>>

\* Lines 124-190: one file of the disc and its metadata.
ProcessFile ==
    /\ pc = "files"
    /\ LET file_path == sorted_tracks[fIdx].file
           metadata == sorted_tracks[fIdx].meta
       IN  /\ fs' = ApplyToFile(fs, file_path, metadata, posix)
           /\ touched' = IF TagsSaved(fs, file_path)
                         THEN touched \cup {fs[file_path].id} ELSE touched
           /\ log' = Append(log, LogEntry(fs, file_path, metadata, posix))
    /\ IF fIdx < Len(sorted_tracks)
       THEN fIdx' = fIdx + 1 /\ UNCHANGED <<pc, mIdx, sorted_tracks>>
       ELSE pc' = "apply" /\ mIdx' = mIdx + 1 /\ sorted_tracks' = <<>> /\ fIdx' = 0
    /\ UNCHANGED <<posix, arg, ret, last_manual, walk, all_files, albums, idx, exc, album_name, artist_name,
                   matches, full_details, media, rounds, asked, prompts, fs0, result>>

\* Line 343: every album has been processed.
EndOfProgram ==
    /\ pc = "next"
    /\ idx = Len(albums)
    /\ pc' = "done"
    /\ UNCHANGED <<posix, arg, ret, last_manual, log, walk, fs, all_files, albums, idx, exc, album_name, artist_name,
                   matches, full_details, media, mIdx, sorted_tracks, fIdx, rounds, asked,
                   prompts, touched, fs0, result>>

Next ==
    \/ GatherAllFiles
    \/ GroupTracks
    \/ BeginAlbum
    \/ Classify
    \/ ClosePrompt
    \/ ManualInput
    \/ Retry
    \/ Validate
    \/ ApplyDisc
    \/ ProcessFile
    \/ EndOfProgram

Spec == Init /\ [][Next]_vars

\* -------------------------------------------- vocabulary of the properties

\* The disc positions a release lists, and the tracks it lists at a position
\* (over all its media of that position).
ReleasePositions(release) ==
    {MediumNumber(release.media[i]) : i \in 1..Len(release.media)}
RECURSIVE TracksAtFrom(_, _, _)
TracksAtFrom(release, n, i) ==
    IF i > Len(release.media) THEN 0
    ELSE (IF MediumNumber(release.media[i]) = n THEN Len(release.media[i].tracks) ELSE 0)
         + TracksAtFrom(release, n, i + 1)
TracksAt(release, n) == TracksAtFrom(release, n, 1)

LocalDiscs(ds) == {ds[i].name : i \in 1..Len(ds)}

\* The release does not list more disc positions than there are local discs.
PassesDiscCount(release, ds) == Cardinality(ReleasePositions(release)) <= Len(ds)
\* Every disc position of the release is a local disc with as many files as
\* the release has tracks there.
PassesTrackCount(release, ds) ==
    \A n \in ReleasePositions(release) :
        HasDisc(ds, n) /\ TracksAt(release, n) = Len(FilesOfDisc(ds, n))
\* The release's shape is the local shape: the same discs, the same counts.
SameShape(release, ds) ==
    /\ ReleasePositions(release) = LocalDiscs(ds)
    /\ \A n \in LocalDiscs(ds) : TracksAt(release, n) = Len(FilesOfDisc(ds, n))

\* An album is being processed and nothing has been applied yet.
Resolving == pc \in {"for_match", "close_prompt", "manual", "retry", "while"}
Applying == pc \in {"apply", "files"}
AlbumEnded == pc \in {"next", "done"} /\ idx > 0

\* ------------------------------------------------------------------ claims

\* C1: no tag write and no rename happens for an album before a candidate
\* release has passed the disc-count and the track-count check; a rejection
\* leads to a Manual Resolution prompt; a release obtained at that prompt goes
\* through validation before it is applied; and the processing of an album
\* ends either with a validated release applied or with nothing applied.
C1_State ==
    /\ Resolving => fs = fs0 /\ touched = {}
    /\ Applying => /\ full_details # <<>>
                   /\ PassesDiscCount(full_details[1], discs)
                   /\ PassesTrackCount(full_details[1], discs)
    /\ AlbumEnded => result = "applied" \/ (fs = fs0 /\ touched = {})
C1_Step ==
    /\ (pc = "while" /\ full_details # <<>>
          /\ ~(PassesDiscCount(full_details[1], discs)
               /\ PassesTrackCount(full_details[1], discs))
          /\ pc' # "crashed")
       => pc' = "manual" /\ prompts' = prompts + 1
    /\ pc = "manual" => pc' \in {"manual", "while", "retry", "crashed"}
    /\ (pc' = "apply" /\ pc # "apply") => pc \in {"while", "files"}
    /\ (result' = "applied" /\ result # "applied") => pc = "apply"
C1_ValidationPrecedesApplication == [](C1_State) /\ [][C1_Step]_vars

\* C1 witness: a release was rejected, the operator resolved again, and the
\* release obtained then is being applied.
C1_Witness == pc = "files" /\ prompts >= 2 /\ rounds >= 1 /\ touched # {}

\* C2 (as claimed): a release that reaches update_metadata has exactly the local
\* shape: the same set of discs, and for every disc as many tracks as files.
C2_AcceptedOnlyIfSameShape ==
    pc = "files" => SameShape(full_details[1], discs)

\* C3 (as claimed): a candidate with more disc positions than local discs, or
\* with a disc whose track count differs from the local disc's file count, is
\* sent back to Manual Resolution and nothing is applied.
C3_Mismatch ==
    /\ pc = "while"
    /\ full_details # <<>>
    /\ \/ Cardinality(ReleasePositions(full_details[1])) > Len(discs)
       \/ \E n \in ReleasePositions(full_details[1]) :
             HasDisc(discs, n) /\ TracksAt(full_details[1], n) # Len(FilesOfDisc(discs, n))
C3_MismatchIsRejected ==
    [][C3_Mismatch => (pc' = "manual" /\ fs' = fs)]_vars

\* C4 (as claimed): no album's data puts the run into an aborted state.
C4_RunNeverAborts == pc # "crashed"

\* C5: when the operator gives empty input at a Manual Resolution prompt, so
\* that resolution ends without a release, the album's files are unmodified:
\* the disk is as it was when the album's processing began.
C5_AbandonedAlbumUntouched ==
    (AlbumEnded /\ result = "no_release") => (fs = fs0 /\ touched = {})

\* C5 witness: resolution was abandoned at a prompt reached after a validation
\* rejection.
C5_Witness ==
    pc = "next" /\ idx > 0 /\ result = "no_release" /\ prompts >= 2 /\ rounds >= 1

\* C6 (as claimed): with zero candidates the album is escalated to Manual
\* Resolution: the operator is prompted before the album is given up.
C6_NoCandidatesEscalate ==
    [][(pc = "for_match" /\ matches = <<>>) => pc' = "manual"]_vars

\* C7 (as claimed): no file is lost: the disk always holds as many files as
\* were listed at the scan.
C7_NoFileLost == Cardinality(DOMAIN fs) = Len(walk)

\* The paths in the buckets of albums, and how often a path occurs in them.
RECURSIVE CountIn(_, _)
CountIn(seq, x) ==
    IF seq = <<>> THEN 0
    ELSE (IF seq[1] = x THEN 1 ELSE 0) + CountIn(Tail(seq), x)
RECURSIVE CountInDiscs(_, _)
CountInDiscs(ds, x) ==
    IF ds = <<>> THEN 0 ELSE CountIn(ds[1].files, x) + CountInDiscs(Tail(ds), x)
RECURSIVE Occurrences(_, _)
Occurrences(as, x) ==
    IF as = <<>> THEN 0 ELSE CountInDiscs(as[1].discs, x) + Occurrences(Tail(as), x)

\* The grouping has just been computed from the disk.
Grouped == pc = "next" /\ idx = 0
Scanned == {all_files[i] : i \in 1..Len(all_files)}

\* C8 (as claimed): every file that passes the extension filter is in exactly
\* one (album, disc) bucket.
C8_EveryScannedFileBucketed ==
    Grouped => \A f \in Scanned : Occurrences(albums, f) = 1

\* C8 (amended): no scanned file is in two buckets or twice in one; it is in
\* exactly one bucket when it is an .mp3 or .flac file whose tags can be read,
\* and in none otherwise (.wav files and unreadable files are dropped).
C8_GrouperPartitionsReadable ==
    Grouped =>
        \A f \in Scanned :
            Occurrences(albums, f) =
                (IF (EndsWith(f, S_mp3) \/ EndsWith(f, S_flac)) /\ fs[f].ok THEN 1 ELSE 0)

\* C8 witness: a listing of two files that passed the filter, one bucketed
\* and one dropped.
C8_Witness ==
    /\ Grouped
    /\ \E f, g \in Scanned : Occurrences(albums, f) = 1 /\ Occurrences(albums, g) = 0

\* C9: a release that is validated or applied without any operator answer
\* ('y' to a close match, or a manual input) comes from a first candidate whose
\* title is the local album name and whose artist is the local artist name,
\* as exact strings; with no local artist there is no auto-accept.
C9_AutoAcceptOnlyExact ==
    ((pc = "while" \/ Applying) /\ full_details # <<>> /\ ~asked)
        => /\ matches # <<>>
           /\ matches[1].title = album_key
           /\ ReleaseArtist(matches[1]) = artist_name
           /\ artist_name # None

\* C9 witness: an auto-accepted release is being applied.
C9_Witness == pc = "files" /\ ~asked /\ touched # {}

\* C10 (as claimed): a track whose position has a non-numeric prefix does not
\* abort processing: update_metadata does not end with an uncaught error.
C10_NonNumericTrackDoesNotAbort ==
    ~(/\ pc = "crashed"
      /\ exc = "ValueError"
      /\ \E t \in 1..Len(media[mIdx].tracks) :
            ~IsDigitStr(SplitFirst(media[mIdx].tracks[t].tracknumber, "/")))

\* ------------------------------------------------- Manual Resolution: retry

\* C11 (as claimed): whenever a fetch made within Manual Resolution fails, on
\* the ID path or on the free-text path, the operator gets the retry prompt;
\* declining at that prompt ends the resolution with no release.
C11_FailedFetchOffersRetry ==
    [][/\ (pc = "manual" /\ last_manual'.fetch_error # "") => pc' = "retry"
       /\ (pc = "retry" /\ ~last_manual'.retried)
              => (pc' = "while" /\ full_details' = <<>>)]_vars

\* ----------------------------------------------- update_metadata: one disc

\* C12: within one disc a pass of the loop that fails to write the tags of
\* its file or to rename it is caught and logged, and the files after it still
\* get their passes: the run does not abort, the loop goes on to the next pair
\* of the disc, and a pass that does not fail itself leaves its file with the
\* track's tags at the computed path, whatever happened to the files before it.
C12_Pass ==
    pc = "files" =>
        LET file_path == sorted_tracks[fIdx].file
            metadata == sorted_tracks[fIdx].meta
            entry == LogEntry(fs, file_path, metadata, posix)
            new_file_path == NewFilePath(file_path, metadata)
        IN  /\ pc' \in {"files", "apply"}
            /\ log' = Append(log, entry)
            /\ IF fIdx < Len(sorted_tracks)
               THEN pc' = "files" /\ fIdx' = fIdx + 1 /\ sorted_tracks' = sorted_tracks
               ELSE pc' = "apply"
            /\ ~entry.raised =>
                  /\ new_file_path \in DOMAIN fs'
                  /\ fs'[new_file_path] = WriteTags(fs[file_path], metadata)
                  /\ new_file_path # file_path => file_path \notin DOMAIN fs'
            /\ ~entry.saved => fs' = fs
GrouperUniverse ==
    { <<<<"I","/","a",".","m","p","3">>,
            NewFile(1, TRUE, FALSE, <<"A","b"," ","(","D","i","s","c"," ","1",")">>, <<"A">>)>>,
      <<<<"I","/","b",".","m","p","3">>,
            NewFile(2, TRUE, FALSE, <<"A","b"," ","(","D","i","s","c"," ","2",")">>, <<"A">>)>>,
      <<<<"I","/","c",".","m","p","3">>,
            NewFile(3, TRUE, FALSE, <<"A","b"," ","[","D","i","s","c"," ","2","]">>, <<"A">>)>>,
      <<<<"I","/","C","D","2","/","d",".","f","l","a","c">>,
            NewFile(4, TRUE, FALSE, <<"A","b">>, <<"A">>)>>,
      <<<<"I","/","c","d"," ","1","/","e",".","m","p","3">>,
            NewFile(5, TRUE, FALSE, <<"A","b"," ","(","D","i","s","c"," ","2",")">>, <<"A">>)>>,
      <<<<"I","/","f",".","m","p","3">>,
            NewFile(6, TRUE, FALSE, <<"A","b"," ","(","d","i","s","c"," ","2",")">>, <<"A">>)>>,
      <<<<"I","/","g",".","m","p","3">>,
            NewFile(7, TRUE, FALSE, <<"A","b"," ","(","C","D"," ","2",")">>, <<"A">>)>>,
      <<<<"I","/","h",".","m","p","3">>,
            NewFile(8, TRUE, FALSE, <<"A","b">>, <<"A">>)>>,
      <<<<"I","/","i",".","m","p","3">>,
            NewFile(9, TRUE, FALSE, <<"D","i","s","c"," ","1"," ","(","D","i","s","c"," ","2",")">>, <<"A">>)>>,
      <<<<"I","/","j",".","m","p","3">>,
            NewFile(10, TRUE, FALSE, <<"D","i","s","c"," ","1"," ","(","D","i","s","c"," ","1",")">>, <<"A">>)>>,
      <<<<"I","/","k",".","m","p","3">>,
            NewFile(11, TRUE, FALSE, None, <<"A">>)>>,
      <<<<"I","/","l",".","w","a","v">>,
            NewFile(12, TRUE, FALSE, <<"A","b">>, <<"A">>)>>,
      <<<<"I","/","m",".","m","p","3">>,
            NewFile(13, TRUE, FALSE, <<"Z"," ","(","D","i","s","c"," ","1",")">>, <<"A">>)>>,
      <<<<"I","/","n",".","m","p","3">>,
            NewFile(14, TRUE, FALSE, <<"Z"," ","(","D","i","s","c"," ","2",")">>, <<"A">>)>> }

RECURSIVE GrouperListings(_)
GrouperListings(n) ==
    IF n = 0 THEN {<<>>}
    ELSE LET shorter == GrouperListings(n - 1)
         IN  shorter \cup
             { Append(l, f) : l \in {x \in shorter : Len(x) = n - 1},
                              f \in GrouperUniverse }
GrouperFolders == {l \in GrouperListings(MaxFiles) : Len(l) > 0 /\ NoRepeat(l)}

\* Nothing of main has run yet.
AtStart ==
    /\ all_files = <<>>
    /\ albums = <<>>
    /\ idx = 0
    /\ exc = ""
    /\ album_name = <<>>
    /\ artist_name = None
    /\ matches = <<>>
    /\ full_details = <<>>
    /\ media = <<>>
    /\ mIdx = 0
    /\ sorted_tracks = <<>>
    /\ fIdx = 0
    /\ rounds = 0
    /\ asked = FALSE
    /\ prompts = 0
    /\ touched = {}
    /\ result = ""
    /\ last_manual = NoManual
    /\ log = <<>>

\* Lines 243-244 alone: the scan and the grouping of a folder.
InitGrouper ==
    /\ posix = TRUE
    /\ \E folder \in GrouperFolders :
          /\ walk = [i \in 1..Len(folder) |-> folder[i][1]]
          /\ fs = DiskOf(folder)
          /\ fs0 = DiskOf(folder)
    /\ pc = "start"
    /\ AtStart
    /\ arg = <<>>
    /\ ret = <<>>

NextGrouper ==
    \/ GatherAllFiles
    \/ GroupTracks

SpecGrouper == InitGrouper /\ [][NextGrouper]_vars

\* The album tag the Grouper reads from a file (line 68).
AlbumTagOf(file) == IF file.album = None THEN S_UnknownAlbum ELSE file.album

\* A disc marker as the specification describes it for album tags: optional
\* white space and bracket, "Disc" or "CD" in either case, a space, digits.
MarkerAt(s, i) ==
    LET w == SuffixWordAt(s, i)
    IN  \/ LitAt(s, w, <<"D","i","s","c"," ">>, TRUE) /\ SkipDigits(s, w + 5) > w + 5
        \/ LitAt(s, w, <<"C","D"," ">>, TRUE) /\ SkipDigits(s, w + 3) > w + 3
HasMarker(s) == \E i \in 1..Len(s) : MarkerAt(s, i)
\* The digits of the leftmost such marker.
MarkerDigits(s) ==
    LET i == CHOOSE i \in 1..Len(s) :
                /\ MarkerAt(s, i)
                /\ \A k \in 1..(i-1) : ~MarkerAt(s, k)
        w == SuffixWordAt(s, i)
        d == IF LitAt(s, w, <<"D","i","s","c"," ">>, TRUE) THEN w + 5 ELSE w + 3
    IN  Slice(s, d, SkipDigits(s, d) - 1)

\* C13 (as claimed): the disc of a file is the number of the Disc or CD marker
\* of its album tag when the tag has one, else the number of the Disc or CD
\* marker of its path when the path has one, else "1"; every disc identifier
\* is a non-empty string of digits, and a grouping key retains no marker when
\* the marker of the tag picked the disc number.
C13_DiscResolutionOrder ==
    Grouped =>
        \A a \in 1..Len(albums) : \A d \in 1..Len(albums[a].discs) :
            \A f \in 1..Len(albums[a].discs[d].files) :
                LET file_path == albums[a].discs[d].files[f]
                    tag == AlbumTagOf(fs[file_path])
                    disc_number == albums[a].discs[d].name
                IN  /\ disc_number # <<>> /\ IsDigitStr(disc_number)
                    /\ IF HasMarker(tag)
                       THEN disc_number = MarkerDigits(tag) /\ ~HasMarker(albums[a].name)
                       ELSE IF DiscRegexSearch(file_path) # None
                       THEN disc_number = DiscRegexSearch(file_path)
                       ELSE disc_number = <<"1">>

\* The album tag of the disc m of the album X: "X (Disc m)".
DiscVariant(X, m) == X \o <<" ","(","D","i","s","c"," ">> \o m \o <<")">>
BaseNames == {S_Ab, <<"Z">>, <<"D","i","s","c"," ","1">>}
DiscDigits == {<<"1">>, <<"2">>}
\* A base name that has no white space around it and no disc marker in it.
PlainName(X) ==
    /\ Strip(X) = X
    /\ \A i \in 1..Len(X) : ~SuffixMatchesAt(X, i, TRUE)

\* The album key and the disc a bucketed file was grouped under.
InBucket(a, d, file_path) ==
    \E f \in 1..Len(albums[a].discs[d].files) : albums[a].discs[d].files[f] = file_path
KeyOf(file_path) ==
    albums[CHOOSE a \in 1..Len(albums) :
              \E d \in 1..Len(albums[a].discs) : InBucket(a, d, file_path)].name
DiscOf(file_path) ==
    LET a == CHOOSE a \in 1..Len(albums) :
                \E d \in 1..Len(albums[a].discs) : InBucket(a, d, file_path)
    IN  albums[a].discs[CHOOSE d \in 1..Len(albums[a].discs) :
                            InBucket(a, d, file_path)].name

\* Two files tagged "X (Disc m)" and "X (Disc n)" are under the one key X, in
\* the buckets m and n, which are all the buckets of X when the folder holds
\* nothing else; and stripping X leaves X.
Collapsed(X, m, n, f, g) ==
    /\ Occurrences(albums, f) = 1 /\ Occurrences(albums, g) = 1
    /\ KeyOf(f) = X /\ KeyOf(g) = X
    /\ DiscOf(f) = m /\ DiscOf(g) = n
    /\ Len(all_files) = 2 => Len(albums) = 1 /\ Len(albums[1].discs) = 2
    /\ StripDiscSuffix(X) = X
VariantsOf(X, m, n, f, g) ==
    /\ m # n
    /\ AlbumTagOf(fs[f]) = DiscVariant(X, m)
    /\ AlbumTagOf(fs[g]) = DiscVariant(X, n)

\* C14 (as claimed): for any base name X and disc numbers m # n, files tagged
\* "X (Disc m)" and "X (Disc n)" are grouped under the single key X in the
\* two buckets m and n, and stripping the stripped name X leaves it unchanged.
C14_VariantsCollapse ==
    Grouped =>
        \A X \in BaseNames : \A m, n \in DiscDigits : \A f, g \in Scanned :
            VariantsOf(X, m, n, f, g) => Collapsed(X, m, n, f, g)

\* C14 (amended): the same for the base names that have no white space
\* around them and no disc marker of their own.
C14_PlainVariantsCollapse ==
    Grouped =>
        \A X \in {Y \in BaseNames : PlainName(Y)} :
            \A m, n \in DiscDigits : \A f, g \in Scanned :
                VariantsOf(X, m, n, f, g) => Collapsed(X, m, n, f, g)

\* C14 witness: the two disc variants of a plain base name were grouped.
C14_Witness ==
    /\ Grouped
    /\ \E X \in BaseNames : \E m, n \in DiscDigits : \E f, g \in Scanned :
          PlainName(X) /\ VariantsOf(X, m, n, f, g) /\ Collapsed(X, m, n, f, g)

\* ------------------------------------------- clean_file_name on its own

\* The strings over an alphabet, up to a length.
RECURSIVE StringsUpTo(_, _)
StringsUpTo(alphabet, n) ==
    IF n = 0 THEN {<<>>}
    ELSE LET shorter == StringsUpTo(alphabet, n - 1)
         IN  shorter \cup
             { Append(t, c) : t \in {x \in shorter : Len(x) = n - 1}, c \in alphabet }

\* The characters of the file names clean_file_name is run on: the nine the
\* regular expression of line 33 matches, a letter and a space.
NameAlphabet == {"<", ">", ":", "\"", "/", "\\", "|", "?", "*", "a", " "}

\* No file, no disk.
NoFiles ==
    /\ posix = TRUE
    /\ walk = <<>>
    /\ fs = <<>>
    /\ fs0 = <<>>

InitClean ==
    /\ arg \in StringsUpTo(NameAlphabet, MaxNameLen)
    /\ ret = <<>>
    /\ pc = "call"
    /\ NoFiles
    /\ AtStart

\* Lines 17-37: clean_file_name(arg) returns.
CleanFileName ==
    /\ pc = "call"
    /\ ret' = clean_file_name(arg)
    /\ pc' = "returned"
    /\ UNCHANGED <<posix, arg, last_manual, log, walk, fs, all_files, albums, idx, exc,
                   album_name, artist_name, matches, full_details, media, mIdx,
                   sorted_tracks, fIdx, rounds, asked, prompts, touched, fs0, result>>

NextClean == CleanFileName

SpecClean == InitClean /\ [][NextClean]_vars

\* The table of the claim: what each unsafe character becomes.
UnsafeTable ==
    { <<"<", <<"(">> >>, <<">", <<")">> >>, <<":", <<"-">> >>, <<"\"", <<"'">> >>,
      <<"/", <<"-">> >>, <<"\\", <<"-">> >>, <<"|", <<"-">> >>,
      <<"?", <<>> >>, <<"*", <<>> >> }
UnsafeSet == {e[1] : e \in UnsafeTable}
\* A string, each unsafe character replaced through the table and every other
\* character kept, in the same order.
RECURSIVE ThroughTable(_)
ThroughTable(s) ==
    IF s = <<>> THEN <<>>
    ELSE (IF s[1] \in UnsafeSet
          THEN (CHOOSE e \in UnsafeTable : e[1] = s[1])[2]
          ELSE <<s[1]>>) \o ThroughTable(Tail(s))

\* C15 (as claimed): the result of clean_file_name is its argument with each
\* unsafe character replaced through the table and every other character left
\* unaltered, in the same order.
C15_OnlyUnsafeAltered == pc = "returned" => ret = ThroughTable(arg)

\* C15 (amended): the result is that string without the white space at its
\* beginning and at its end.
C15_TableThenStrip == pc = "returned" => ret = Strip(ThroughTable(arg))

\* C15 witness: a name with an unsafe character and white space at its
\* beginning was cleaned to a non-empty name.
C15_Witness ==
    /\ pc = "returned"
    /\ Len(arg) = MaxNameLen
    /\ arg[1] = " "
    /\ \E i \in 1..Len(arg) : arg[i] \in UnsafeSet
    /\ ret # <<>>

\* ------------------------------------------ the calls of update_metadata

\* C16: while the accepted release is applied, every disc position collected
\* in media is a disc of the local grouping with as many files as the position
\* has collected tracks, so that update_metadata is given two lists of equal
\* length and pairs every file and every track; this also when the release
\* lists several media with the same or with no position.
C16_EqualLengthLists ==
    /\ Applying =>
          \A k \in 1..Len(media) :
              /\ HasDisc(discs, media[k].name)
              /\ Len(media[k].tracks) = Len(FilesOfDisc(discs, media[k].name))
    /\ pc = "files" =>
          /\ Len(sorted_tracks) = Len(media[mIdx].tracks)
          /\ Len(sorted_tracks) = Len(FilesOfDisc(discs, media[mIdx].name))

\* C16 witness: update_metadata is at work for a release that lists two media
\* for one position, one of them without a position.
C16_Witness ==
    /\ pc = "files"
    /\ Len(full_details[1].media) > Len(media)
    /\ \E i \in 1..Len(full_details[1].media) : full_details[1].media[i].position = None

\* --------------------------------------- one pass of update_metadata twice

\* The paths of the file the pass is run on: a plain name, the name the pass
\* computes for the track 1 "T", a disc folder, and no folder.
RenamePaths ==
    { <<"I","/","a",".","m","p","3">>,
      <<"I","/","0","1"," ","-"," ","T",".","m","p","3">>,
      <<"I","/","C","D","2","/","c",".","f","l","a","c">>,
      <<"a",".","m","p","3">> }
\* The characters of the track titles: a letter, a space, a removed and a
\* replaced unsafe character, and the dot that separates the extension.
TitleAlphabet == {"T", " ", "?", "/", "."}
\* Track positions: one digit, two digits, with a total, and not a number.
Positions == { <<"1">>, <<"1","2">>, <<"1","/","2">>, <<"A">> }

\* A folder with one file, and the metadata of the track assigned to it.
InitRename ==
    /\ posix = TRUE
    /\ \E p \in RenamePaths :
          /\ walk = <<p>>
          /\ fs = DiskOf(<<<<p, NewFile(1, TRUE, FALSE, S_Ab, <<"A">>)>>>>)
          /\ fs0 = DiskOf(<<<<p, NewFile(1, TRUE, FALSE, S_Ab, <<"A">>)>>>>)
    /\ \E title \in StringsUpTo(TitleAlphabet, MaxNameLen), position \in Positions :
          arg = TrackMetadata(Track(title, position), S_Ab, S_Date)
    /\ ret = <<>>
    /\ pc = "call"
    /\ AtStart

\* The path of the one file of the disk.
TheFile(files) == CHOOSE p \in DOMAIN files : TRUE

\* Lines 124-190 for the file where it now is, with the same metadata: the
\* first pass, then a second one; ret collects the path of the file after each.
RenamePass ==
    /\ pc = "call"
    /\ LET after == ApplyToFile(fs, TheFile(fs), arg, posix)
       IN  /\ fs' = after
           /\ ret' = Append(ret, TheFile(after))
    /\ pc' = IF Len(ret) = 1 THEN "returned" ELSE "call"
    /\ UNCHANGED <<posix, arg, last_manual, log, walk, all_files, albums, idx, exc,
                   album_name, artist_name, matches, full_details, media, mIdx,
                   sorted_tracks, fIdx, rounds, asked, prompts, touched, fs0, result>>

NextRename == RenamePass

SpecRename == InitRename /\ [][NextRename]_vars

\* C17: a pass leaves the file at the computed name, the track number on two
\* digits, " - ", the sanitized title, ".", the extension, in the folder of
\* the file, and leaves the path as it is when that is the name it has; the
\* second pass with the same metadata computes the path the file has and
\* changes nothing.
C17_Pass ==
    pc = "call" =>
        LET file_path == TheFile(fs)
            name == TrackNum(arg.tracknumber) \o <<" ","-"," ">> \o arg.title
            computed == PathJoin(Dirname(file_path),
                                 clean_file_name(name) \o <<".">> \o SplitLast(file_path, "."))
        IN  /\ DOMAIN fs' = {computed}
            /\ computed = file_path => DOMAIN fs' = DOMAIN fs
            /\ Len(ret) = 1 => computed = file_path /\ fs' = fs
C17_RenameIdempotent == [][C17_Pass]_vars

\* C17 witness: a file whose computed name differed from its path and whose
\* track title has an unsafe character went through both passes and was
\* renamed by the first one only.
C17_Witness ==
    /\ pc = "returned"
    /\ Len(ret) = 2
    /\ ret[1] \notin DOMAIN fs0
    /\ ret[2] = ret[1]
    /\ \E i \in 1..Len(arg.title) : arg.title[i] \in UnsafeSet

\* ------------------------------------------------ file-to-track assignment

\* The pairs update_metadata sorts are the i-th file of the disc with the i-th
\* track collected for it, each once.
PairedByPosition ==
    LET files == FilesOfDisc(discs, media[mIdx].name)
        tracks == media[mIdx].tracks
    IN  /\ Len(sorted_tracks) = Len(files)
        /\ \A i \in 1..Len(files) :
              Cardinality({k \in 1..Len(sorted_tracks) :
                              sorted_tracks[k] = [file |-> files[i], meta |-> tracks[i]]}) >= 1

\* C18 (as claimed): the pairs are made by list position and the sort changes
\* their order only; the metadata of a pair is written to the file the disc
\* lists at the pair's path, and no file receives the metadata of two tracks.
C18_OneTrackPerFile ==
    /\ pc = "files" => PairedByPosition
    /\ \A i \in 1..Len(log) :
          log[i].saved =>
              /\ log[i].path \in DOMAIN fs0
              /\ log[i].id = fs0[log[i].path].id
              /\ \A j \in 1..Len(log) : (j # i /\ log[j].saved) => log[j].id # log[i].id

\* C19 (as claimed): answering 'y' at the retry prompt leads to another
\* attempt to obtain a release, a new fetch or a new prompt, instead of ending
\* the resolution with no release as declining does.
C19_RetryTriesAgain ==
    [][(pc = "retry" /\ last_manual'.retried)
          => (pc' \in {"manual", "retry"} \/ full_details' # <<>>)]_vars

\* -------------------------------------------------- the loop over candidates

\* The tracks collected from the release that is being applied.
TracksOfMedia ==
    UNION {{media[k].tracks[t] : t \in 1..Len(media[k].tracks)} : k \in 1..Len(media)}

\* C20: for each album the loop over the candidates is entered once, when
\* the album begins, and never again; what is classified, auto-accepted or
\* prompted for is the first candidate; the application of a release begins at
\* most once for an album, with nothing written before, and when it ends the
\* album ends; every metadata written for the album is a track of that one
\* release.
C20_State ==
    Applying => \A i \in 1..Len(log) : log[i].track \in TracksOfMedia
C20_Step ==
    /\ pc' = "for_match" => pc = "next"
    /\ pc' = "close_prompt" =>
          /\ pc = "for_match"
          /\ is_close_match(album_name, matches[1].title)
    /\ (pc = "for_match" /\ pc' = "while") =>
          IsExactMatch(album_name, artist_name, matches[1])
    /\ (pc # "apply" /\ pc' = "apply" /\ pc # "files") =>
          /\ pc = "while"
          /\ fs = fs0 /\ touched = {} /\ log = <<>>
    /\ (pc = "apply" /\ pc' \notin {"apply", "files", "crashed"}) =>
          /\ pc' = "next"
          /\ result' = "applied"
    /\ Applying => UNCHANGED <<full_details, media, matches>> \/ pc' = "next"
C20_FirstCandidateOnly == []C20_State /\ [][C20_Step]_vars

\* C20 witness: the operator declined the first of two candidates, the second
\* of which has the title and the artist of the album, and is now asked for a
\* manual input: the second candidate was not classified.
C20_Witness ==
    /\ pc = "manual"
    /\ Len(matches) = 2
    /\ IsExactMatch(album_key, artist_name, matches[2])
    /\ ~asked
    /\ prompts = 1

====
